---- MODULE Spec2Model ----
(***************************************************************************)
(* Model of src/main.py (PodioActiveMembers): the three pipeline stages    *)
(*   extract_member_data      -> specification SpecExt                     *)
(*   find_status_change_dates -> specification SpecDep (run after extract) *)
(*   calculate_monthly_stats  -> specification SpecAgg                     *)
(*                                                                         *)
(* Python's None is the empty tuple <<>>, a present value x is <<x>>, so   *)
(* that "if v:" is v # <<>>.                                                *)
(*                                                                         *)
(* A datetime is [m, p, tz]: m the calendar month counted from year 0      *)
(* (year * 12 + month - 1), p its place inside the month ("start" is the   *)
(* first instant, day 1 00:00:00, "end" the last second), tz whether the   *)
(* parsed string carried an offset ("Z" or "+00:00"), which makes the      *)
(* datetime offset-aware.  Timestamps have the resolution of one second,   *)
(* as the record system delivers them.                                     *)
(***************************************************************************)
EXTENDS Integers, Sequences, FiniteSets, TLC

VARIABLES
    pc,                  \* position of the running function
    member_data,         \* list of member_info dicts
    members,             \* raw items handed to extract_member_data
    scan_i,              \* extract_member_data: record index of the label scan
    scan_j,              \* extract_member_data: field index of the label scan
    join_date_field_id,  \* extract_member_data locals
    status_field_id,
    name_field_id,
    exit_statuses,       \* find_status_change_dates locals
    exit_status_members, \* (as indices into member_data)
    dep_i,               \* index of the member loop of find_status_change_dates
    revisions,
    rev_pos,             \* number of iterations of "for revision in revisions"
    leave_date,
    cache_files,         \* item ids with a revisions_cache_<id>.json file
    fetched,             \* calls of get_item_revisions, in order
    printed,             \* per processed member, the message about its leave date
    now,                 \* value datetime.now() returns in calculate_monthly_stats
    months,              \* list `months` of calculate_monthly_stats
    monthly_counts       \* list `monthly_counts` of calculate_monthly_stats

extVars == <<members, scan_i, scan_j, join_date_field_id, status_field_id, name_field_id>>
depVars == <<exit_statuses, exit_status_members, dep_i, revisions, rev_pos,
             leave_date, cache_files, fetched, printed>>
aggVars == <<now, months, monthly_counts>>
vars == <<pc, member_data, extVars, depVars, aggVars, depVars>>

None == <<>>
Some(x) == <<x>>
Val(o) == o[1]

\* ---------------------------------------------------------------- bounds
\* First calendar month of the modelled window: 24286 = 2023 * 12 + 10,
\* November 2023, so that the window crosses a year boundary.
EpochMonth == 24286
\* The window has the months EpochMonth .. EpochMonth + MaxMonth.
MaxMonth == 2

MonthRange == EpochMonth .. (EpochMonth + MaxMonth)
ItemIds == <<101, 102>>

\* ------------------------------------------------------------- datetimes
NaiveDates == [m : MonthRange, p : {"start", "end"}, tz : {FALSE}]
AwareDates == [m : MonthRange, p : {"start"}, tz : {TRUE}]
Dates == NaiveDates \cup AwareDates
OptDates == {None} \cup {Some(d) : d \in Dates}

PosRank(p) == IF p = "start" THEN 0 ELSE 1

\* datetime.__le__ / __gt__ on two datetimes of the same awareness
DateLeq(a, b) == a.m < b.m \/ (a.m = b.m /\ PosRank(a.p) <= PosRank(b.p))
DateGt(a, b) == ~DateLeq(a, b)

\* dt.replace(day=1, hour=0, minute=0, second=0, microsecond=0)
FirstOfMonth(d) == [m |-> d.m, p |-> "start", tz |-> d.tz]
\* dt + relativedelta(months=1)
AddMonth(d) == [d EXCEPT !.m = d.m + 1]
\* The bug "the second is not subtracted": the first instant of the next month.
MonthEndNoSubtract(month_start) ==
    [m |-> AddMonth(month_start).m, p |-> "start", tz |-> month_start.tz]

\* month_start + relativedelta(months=1) - timedelta(seconds=1)
MonthEnd(month_start) ==
    [m |-> AddMonth(month_start).m - 1, p |-> "end", tz |-> month_start.tz]
\* month_start.strftime("%Y-%m"), as the pair <<year, month>>
FormatMonth(d) == <<d.m \div 12, (d.m % 12) + 1>>

Indices(s) == 1 .. Len(s)

\* ---------------------------------------------------------------- strings
\* A Python str is the sequence of its characters.
LowerChar(c) ==
    CASE c = "A" -> "a" [] c = "B" -> "b" [] c = "C" -> "c" [] c = "D" -> "d"
      [] c = "E" -> "e" [] c = "F" -> "f" [] c = "G" -> "g" [] c = "H" -> "h"
      [] c = "I" -> "i" [] c = "J" -> "j" [] c = "K" -> "k" [] c = "L" -> "l"
      [] c = "M" -> "m" [] c = "N" -> "n" [] c = "O" -> "o" [] c = "P" -> "p"
      [] c = "Q" -> "q" [] c = "R" -> "r" [] c = "S" -> "s" [] c = "T" -> "t"
      [] c = "U" -> "u" [] c = "V" -> "v" [] c = "W" -> "w" [] c = "X" -> "x"
      [] c = "Y" -> "y" [] c = "Z" -> "z" [] OTHER -> c
\* str.lower()
Lower(str) == [k \in 1 .. Len(str) |-> LowerChar(str[k])]
\* sub in str
Contains(sub, str) ==
    \E k \in 0 .. (Len(str) - Len(sub)) : SubSeq(str, k + 1, k + Len(sub)) = sub

\* ------------------------------------------------------ extract_member_data
DefaultJoinDateFieldId == 229611689
DefaultStatusFieldId == 216758721
DefaultNameFieldId == 206882163
\* range(min(5, len(members)))
SampleSize == 5

\* dict.get(key, default)
Get(d, key, default) == IF key \in DOMAIN d THEN d[key] ELSE default

NoIds == [join |-> None, status |-> None, name |-> None]

\* The bug-free reading "first match wins": a resolved role is kept.
ScanFieldKeepFirst(ids, field) ==
    LET label == Lower(Get(field, "label", <<>>))
    IN  IF Contains(<<"b", "e", "g", "i", "n", "n">>, label) /\ Contains(<<"m", "i", "t", "g", "l", "i", "e", "d", "s", "c", "h", "a", "f", "t">>, label)
        THEN IF ids.join = None THEN [ids EXCEPT !.join = Some(field.field_id)] ELSE ids
        ELSE IF Contains(<<"s", "t", "a", "t", "u", "s">>, label)
        THEN IF ids.status = None THEN [ids EXCEPT !.status = Some(field.field_id)] ELSE ids
        ELSE IF Contains(<<"v", "o", "r", "n", "a", "m", "e">>, label) \/ Contains(<<"n", "a", "m", "e">>, label)
        THEN IF ids.name = None THEN [ids EXCEPT !.name = Some(field.field_id)] ELSE ids
        ELSE ids

\* body of the label scan, lines 157-166: one field's label against the roles
ScanField(ids, field) ==
    LET label == Lower(Get(field, "label", <<>>))
    IN  IF Contains(<<"b", "e", "g", "i", "n", "n">>, label) /\ Contains(<<"m", "i", "t", "g", "l", "i", "e", "d", "s", "c", "h", "a", "f", "t">>, label)
        THEN [ids EXCEPT !.join = Some(field.field_id)]
        ELSE IF Contains(<<"s", "t", "a", "t", "u", "s">>, label)
        THEN [ids EXCEPT !.status = Some(field.field_id)]
        ELSE IF Contains(<<"v", "o", "r", "n", "a", "m", "e">>, label) \/ Contains(<<"n", "a", "m", "e">>, label)
        THEN [ids EXCEPT !.name = Some(field.field_id)]
        ELSE ids

\* "if not x_field_id: x_field_id = <default>", lines 169-174
WithDefaults(ids) ==
    [join   |-> IF ids.join = None \/ ids.join = Some(0)
                THEN Some(DefaultJoinDateFieldId) ELSE ids.join,
     status |-> IF ids.status = None \/ ids.status = Some(0)
                THEN Some(DefaultStatusFieldId) ELSE ids.status,
     name   |-> IF ids.name = None \/ ids.name = Some(0)
                THEN Some(DefaultNameFieldId) ELSE ids.name]

\* The fix "an empty values list has no first value": no IndexError.
JoinDateOfTolerant(field) ==
    IF field.type # "date" THEN [raised |-> FALSE, value |-> None]
    ELSE LET values == Get(field, "values", <<[none |-> TRUE]>>)
         IN  IF values = <<>> THEN [raised |-> FALSE, value |-> None]
             ELSE IF "start" \in DOMAIN values[1]
                  THEN [raised |-> FALSE, value |-> Some(values[1].start)]
                  ELSE [raised |-> FALSE, value |-> None]

\* lines 202-203: field_type == "date" and "start" in field.get("values", [{}])[0];
\* [][0] raises IndexError.  The default [{}] is a dict without "start".
JoinDateOf(field) ==
    IF field.type # "date" THEN [raised |-> FALSE, value |-> None]
    ELSE LET values == Get(field, "values", <<[none |-> TRUE]>>)
         IN  IF values = <<>> THEN [raised |-> TRUE, value |-> None]
             ELSE IF "start" \in DOMAIN values[1]
                  THEN [raised |-> FALSE, value |-> Some(values[1].start)]
                  ELSE [raised |-> FALSE, value |-> None]

\* field.get("values") is truthy
HasValues(field) == Get(field, "values", <<>>) # <<>>

RECURSIVE ExtractFields(_, _, _, _)
\* "for field in fields", lines 196-213; result [raised, info]
ExtractFields(fields, j, ids, info) ==
    IF j > Len(fields) THEN [raised |-> FALSE, info |-> info]
    ELSE LET field == fields[j]
         IN  IF Some(field.field_id) = ids.join
             THEN LET r == JoinDateOf(field)
                  IN  IF r.raised THEN [raised |-> TRUE, info |-> info]
                      ELSE IF r.value # None
                           THEN ExtractFields(fields, j + 1, ids,
                                              [info EXCEPT !.join_date = r.value])
                           ELSE ExtractFields(fields, j + 1, ids, info)
             ELSE IF Some(field.field_id) = ids.status
             THEN IF field.type = "category" /\ HasValues(field)
                  THEN ExtractFields(fields, j + 1, ids,
                         [info EXCEPT !.status = Some(field.values[1].value.text)])
                  ELSE ExtractFields(fields, j + 1, ids, info)
             ELSE IF Some(field.field_id) = ids.name
             THEN IF field.type = "text" /\ HasValues(field)
                  THEN ExtractFields(fields, j + 1, ids,
                         [info EXCEPT !.name = Some(field.values[1].value)])
                  ELSE ExtractFields(fields, j + 1, ids, info)
             ELSE ExtractFields(fields, j + 1, ids, info)

\* body of "for member in members", lines 181-215; result [raised, info]
ExtractMember(member, ids) ==
    ExtractFields(Get(member, "fields", <<>>), 1, ids,
                  [item_id |-> member.item_id, created_on |-> member.created_on,
                   join_date |-> None, leave_date |-> None,
                   status |-> None, name |-> None])

CurrentIds == [join |-> join_date_field_id, status |-> status_field_id,
               name |-> name_field_id]

DepIdle ==
    /\ exit_statuses = {}
    /\ exit_status_members = <<>>
    /\ dep_i = 0
    /\ revisions = <<>>
    /\ rev_pos = 0
    /\ leave_date = None
    /\ cache_files = {}
    /\ fetched = <<>>
    /\ printed = <<>>

ExtIdle ==
    /\ members = <<>>
    /\ scan_i = 0
    /\ scan_j = 0
    /\ join_date_field_id = None
    /\ status_field_id = None
    /\ name_field_id = None

FieldsOf(i) == Get(members[i], "fields", <<>>)
\* number of records the label scan looks at
SampleLen == IF Len(members) < SampleSize THEN Len(members) ELSE SampleSize

\* the scan has no field left: past the sample, skipping records without fields
RECURSIVE ScanPos(_, _)
ScanPos(i, j) ==
    IF i > SampleLen THEN <<i, j>>
    ELSE IF j > Len(FieldsOf(i)) THEN ScanPos(i + 1, 1)
    ELSE <<i, j>>

\* one iteration of the inner loop of lines 155-166
ExtScanField ==
    /\ pc = "ext_scan"
    /\ LET pos == ScanPos(scan_i, scan_j)
       IN  /\ pos[1] <= SampleLen
           /\ LET ids == ScanField(CurrentIds, FieldsOf(pos[1])[pos[2]])
              IN  /\ join_date_field_id' = ids.join
                  /\ status_field_id' = ids.status
                  /\ name_field_id' = ids.name
           /\ scan_i' = pos[1]
           /\ scan_j' = pos[2] + 1
    /\ UNCHANGED <<pc, member_data, members, aggVars, depVars>>

\* the scan is over: lines 169-174
ExtDefaults ==
    /\ pc = "ext_scan"
    /\ ScanPos(scan_i, scan_j)[1] > SampleLen
    /\ LET ids == WithDefaults(CurrentIds)
       IN  /\ join_date_field_id' = ids.join
           /\ status_field_id' = ids.status
           /\ name_field_id' = ids.name
    /\ pc' = "ext_members"
    /\ UNCHANGED <<member_data, members, scan_i, scan_j, aggVars, depVars>>

\* one iteration of "for member in members" that appends a member_info
ExtAppendMember ==
    /\ pc = "ext_members"
    /\ Len(member_data) < Len(members)
    /\ LET r == ExtractMember(members[Len(member_data) + 1], CurrentIds)
       IN  /\ ~r.raised
           /\ member_data' = Append(member_data, r.info)
    /\ UNCHANGED <<pc, extVars, aggVars, depVars>>

\* one iteration of "for member in members" that raises IndexError
ExtIndexError ==
    /\ pc = "ext_members"
    /\ Len(member_data) < Len(members)
    /\ ExtractMember(members[Len(member_data) + 1], CurrentIds).raised
    /\ pc' = "ext_error"
    /\ UNCHANGED <<member_data, extVars, aggVars, depVars>>

\* return member_data
ExtReturn ==
    /\ pc = "ext_members"
    /\ Len(member_data) = Len(members)
    /\ pc' = "ext_done"
    /\ UNCHANGED <<member_data, extVars, aggVars, depVars>>

\* -------------------------------------------------- inputs of SpecExt
\* Records of at most MaxRecords items, one more than the scan's sample.
MaxRecords == 6

L_BeginnMitgliedschaft == <<"B", "e", "g", "i", "n", "n", " ", "M", "i", "t", "g", "l", "i", "e", "d", "s", "c", "h", "a", "f", "t">>
L_BeginnDerMitgliedschaft == <<"B", "e", "g", "i", "n", "n", " ", "d", "e", "r", " ", "M", "i", "t", "g", "l", "i", "e", "d", "s", "c", "h", "a", "f", "t">>
L_beginn_mitgliedschaft == <<"b", "e", "g", "i", "n", "n", " ", "m", "i", "t", "g", "l", "i", "e", "d", "s", "c", "h", "a", "f", "t">>
L_Status == <<"S", "t", "a", "t", "u", "s">>
L_Mitgliedsstatus == <<"M", "i", "t", "g", "l", "i", "e", "d", "s", "s", "t", "a", "t", "u", "s">>
L_Vorname == <<"V", "o", "r", "n", "a", "m", "e">>
L_Nachname == <<"N", "a", "c", "h", "n", "a", "m", "e">>
L_Name == <<"N", "a", "m", "e">>
L_Datum == <<"D", "a", "t", "u", "m">>
L_Zustand == <<"Z", "u", "s", "t", "a", "n", "d">>

S_aktiv == <<"a", "k", "t", "i", "v">>
S_ausgetreten == <<"a", "u", "s", "g", "e", "t", "r", "e", "t", "e", "n">>
S_ExMitglied == <<"E", "x", "-", "M", "i", "t", "g", "l", "i", "e", "d">>

JoinDay == [m |-> EpochMonth, p |-> "start", tz |-> FALSE]

F_JoinStd ==
    [field_id |-> DefaultJoinDateFieldId, type |-> "date",
     label |-> L_BeginnMitgliedschaft, values |-> <<[start |-> JoinDay]>>]
F_StatusStd ==
    [field_id |-> DefaultStatusFieldId, type |-> "category",
     label |-> L_Status, values |-> <<[value |-> [text |-> S_ausgetreten]]>>]
F_NameStd ==
    [field_id |-> DefaultNameFieldId, type |-> "text",
     label |-> L_Vorname, values |-> <<[value |-> "Ada"]>>]
F_Nachname ==
    [field_id |-> 13, type |-> "text",
     label |-> L_Nachname, values |-> <<[value |-> "Lovelace"]>>]
F_StatusAlt ==
    [field_id |-> 12, type |-> "category",
     label |-> L_Mitgliedsstatus, values |-> <<[value |-> [text |-> S_aktiv]]>>]
\* a join-date label on a field that is not of date type
F_JoinAltText ==
    [field_id |-> 11, type |-> "text",
     label |-> L_BeginnDerMitgliedschaft, values |-> <<[start |-> JoinDay]>>]
\* no "label" key, no "values" key
F_JoinNoValues == [field_id |-> DefaultJoinDateFieldId, type |-> "date"]
\* "values": []
F_JoinEmpty ==
    [field_id |-> DefaultJoinDateFieldId, type |-> "date",
     label |-> L_Datum, values |-> <<>>]
\* the first value has no "start"
F_JoinNoStart ==
    [field_id |-> DefaultJoinDateFieldId, type |-> "date",
     label |-> L_beginn_mitgliedschaft, values |-> <<[end |-> JoinDay]>>]
F_NameEmpty ==
    [field_id |-> DefaultNameFieldId, type |-> "text",
     label |-> L_Name, values |-> <<>>]

RawItem(fields) == [item_id |-> 0, created_on |-> None, fields |-> fields]

ExtItems ==
    {[item_id |-> 0, created_on |-> None],            \* no "fields" key
     RawItem(<<F_JoinStd, F_StatusStd, F_NameStd>>),
     RawItem(<<F_NameStd, F_Nachname, F_StatusAlt, F_JoinNoValues>>),
     RawItem(<<F_JoinNoStart, F_JoinAltText, F_NameEmpty>>),
     RawItem(<<F_JoinEmpty>>)}

\* item ids are unique: the record's position
Numbered(ms) == [i \in Indices(ms) |-> [ms[i] EXCEPT !.item_id = 100 + i]]

AggIdle ==
    /\ now = [m |-> EpochMonth, p |-> "start", tz |-> FALSE]
    /\ months = <<>>
    /\ monthly_counts = <<>>

InitExt ==
    /\ pc = "ext_scan"
    /\ \E n \in 0 .. MaxRecords : \E ms \in [1 .. n -> ExtItems] : members = Numbered(ms)
    /\ member_data = <<>>
    /\ scan_i = 1
    /\ scan_j = 1
    /\ join_date_field_id = None
    /\ status_field_id = None
    /\ name_field_id = None
    /\ DepIdle
    /\ AggIdle

NextExt ==
    \/ ExtScanField
    \/ ExtDefaults
    \/ ExtAppendMember
    \/ ExtIndexError
    \/ ExtReturn

SpecExt == InitExt /\ [][NextExt]_vars


\* ------------------------------------------- whole extract_member_data
RECURSIVE ScanAll(_, _, _, _)
\* the label scan of lines 155-166 over the first SampleSize records
ScanAll(ms, i, j, ids) ==
    IF i > Len(ms) \/ i > SampleSize THEN ids
    ELSE IF j > Len(Get(ms[i], "fields", <<>>)) THEN ScanAll(ms, i + 1, 1, ids)
    ELSE ScanAll(ms, i, j + 1, ScanField(ids, ms[i].fields[j]))

ResolveFieldIds(ms) == WithDefaults(ScanAll(ms, 1, 1, NoIds))

RECURSIVE ExtractAll(_, _, _, _)
\* "for member in members", lines 180-215; result [raised, data]
ExtractAll(ms, k, ids, data) ==
    IF k > Len(ms) THEN [raised |-> FALSE, data |-> data]
    ELSE LET r == ExtractMember(ms[k], ids)
         IN  IF r.raised THEN [raised |-> TRUE, data |-> data]
             ELSE ExtractAll(ms, k + 1, ids, Append(data, r.info))

\* ------------------------------------------------ find_status_change_dates
\* status_field_id = 216758721, the local of find_status_change_dates
FindStatusFieldId == 216758721

ExitTerms == {<<"a", "u", "s">>, <<"e", "x", "i", "t">>, <<"l", "e", "f", "t">>, <<"f", "o", "r", "m", "e", "r">>, <<"e", "x", "-">>, <<"i", "n", "a", "c", "t", "i", "v", "e">>}

\* all_statuses = set(m.get("status") for m in member_data if m.get("status"))
AllStatuses(md) ==
    {Val(md[k].status) : k \in {n \in Indices(md) :
                                   md[n].status # None /\ Val(md[n].status) # <<>>}}

\* potential_exit_statuses
PotentialExitStatuses(md) ==
    {st \in AllStatuses(md) : \E term \in ExitTerms : Contains(term, Lower(st))}

\* exit_statuses = potential_exit_statuses if potential_exit_statuses else ["ausgetreten"]
ExitStatuses(md) ==
    IF PotentialExitStatuses(md) # {} THEN PotentialExitStatuses(md)
    ELSE {<<"a", "u", "s", "g", "e", "t", "r", "e", "t", "e", "n">>}

InExit(m, exits) == m.status # None /\ Val(m.status) \in exits

\* The bug "the filter is forgotten": every member with a status is processed.
ExitStatusMembersAll(md, exits) ==
    LET keep(k) == md[k].status # None
    IN  SelectSeq([k \in Indices(md) |-> k], keep)

\* exit_status_members = [m for m in member_data if m.get("status") in exit_statuses]
ExitStatusMembers(md, exits) ==
    LET keep(k) == InExit(md[k], exits)
    IN  SelectSeq([k \in Indices(md) |-> k], keep)

\* str(n) for a raw int
RECURSIVE IntToStr(_)
IntToStr(n) ==
    LET digit(d) == <<"0", "1", "2", "3", "4", "5", "6", "7", "8", "9">>[d + 1]
    IN  IF n < 10 THEN <<digit(n)>> ELSE IntToStr(n \div 10) \o <<digit(n % 10)>>

\* lines 326-334: the display string of values[0], None when it has none.
\* A JSON value is tagged with its Python type: [kind |-> "dict", text |-> s],
\* [kind |-> "dict"] (no "text"), [kind |-> "str", v |-> s], [kind |-> "int", v |-> n].
DecodeStatus(v) ==
    IF "value" \in DOMAIN v
    THEN IF v.value.kind = "dict" /\ "text" \in DOMAIN v.value THEN Some(v.value.text)
         ELSE IF v.value.kind = "str" THEN Some(v.value.v)
         ELSE IF v.value.kind = "int" THEN Some(IntToStr(v.value.v))
         ELSE None
    ELSE None

\* lines 302-337 for one field delta: is it the change to current_status
FieldIsChange(field, current_status) ==
    /\ field.field_id = FindStatusFieldId
    /\ Get(field, "old_values", <<>>) # <<>>
    /\ Get(field, "values", <<>>) # <<>>
    /\ LET new_status == DecodeStatus(field.values[1])
       IN  /\ new_status # None
           /\ Val(new_status) # <<>>
           /\ Val(new_status) = current_status

RECURSIVE AnyFieldIsChange(_, _, _)
\* "for field in revision['data']['fields']", left at the first change found
AnyFieldIsChange(fields, j, current_status) ==
    IF j > Len(fields) THEN FALSE
    ELSE IF FieldIsChange(fields[j], current_status) THEN TRUE
    ELSE AnyFieldIsChange(fields, j + 1, current_status)

\* lines 300-342 for one revision: the leave_date it yields, or None
RevisionLeaveDate(revision, current_status) ==
    IF "data" \in DOMAIN revision /\ "fields" \in DOMAIN revision.data
    THEN IF AnyFieldIsChange(revision.data.fields, 1, current_status)
         THEN Some(revision.created_on)
         ELSE None
    ELSE None

\* The bug "the loop over the revisions is not left once a date is found".
ScanNeverStops(ld) == FALSE

\* "if leave_date: break", lines 346-347
ScanStops(ld) == ld # None

\* The bug "the oldest delivered entry is taken": revisions[-1].
ApproxDateLast(revs) == revs[Len(revs)].created_on

\* approx_date = revisions[0].get("created_on")
ApproxDate(revs) == revs[1].created_on

\* The bug "a member without any revision gets the first stamp anyway".
NewLeaveDateAlways(ld, revs, old) ==
    IF ld # None THEN ld
    ELSE Some([m |-> EpochMonth, p |-> "start", tz |-> FALSE])

\* lines 350-365: the member's leave_date after its log was scanned
NewLeaveDate(ld, revs, old) ==
    IF ld # None THEN ld
    ELSE IF revs # <<>> THEN Some(ApproxDate(revs))
    ELSE old

\* the message of lines 353 / 363, "none" when nothing is printed
LeaveMessage(ld, revs) ==
    IF ld # None THEN "found" ELSE IF revs # <<>> THEN "approximate" ELSE "none"

CurrentMember == exit_status_members[dep_i]

\* whole extract_member_data(members), called by main()
DepExtract ==
    /\ pc = "dep_start"
    /\ LET ids == ResolveFieldIds(members)
           r == ExtractAll(members, 1, ids, <<>>)
       IN  /\ join_date_field_id' = ids.join
           /\ status_field_id' = ids.status
           /\ name_field_id' = ids.name
           /\ member_data' = IF r.raised THEN member_data ELSE r.data
           /\ pc' = IF r.raised THEN "dep_error" ELSE "dep_setup"
    /\ UNCHANGED <<members, scan_i, scan_j, depVars, aggVars>>

\* lines 248-278
DepSetup ==
    /\ pc = "dep_setup"
    /\ exit_statuses' = ExitStatuses(member_data)
    /\ exit_status_members' = ExitStatusMembers(member_data, ExitStatuses(member_data))
    /\ dep_i' = 1
    /\ pc' = "dep_loop"
    /\ UNCHANGED <<member_data, extVars, revisions, rev_pos, leave_date,
                   cache_files, fetched, printed, aggVars>>

\* line 286 and lines 295-296, whatever get_item_revisions returns
Fetch(how, log) ==
    /\ pc = "dep_loop"
    /\ dep_i <= Len(exit_status_members)
    /\ revisions' = log
    /\ fetched' = Append(fetched, [item_id |-> member_data[CurrentMember].item_id,
                                   how |-> how, empty |-> (log = <<>>)])
    /\ rev_pos' = 0
    /\ leave_date' = None
    /\ pc' = "dep_scan"
    /\ UNCHANGED <<member_data, extVars, exit_statuses, exit_status_members,
                   dep_i, printed, aggVars>>

\* -------------------------------------------------- inputs of SpecDep
\* A change log has at most MaxRevisions entries.
MaxRevisions == 3

\* delivered newest first: entry k carries the k-th newest stamp
StampAt(k) == [m |-> EpochMonth + MaxRevisions - k, p |-> "start", tz |-> FALSE]

TextVal(str) == [value |-> [kind |-> "dict", text |-> str]]
StrVal(str) == [value |-> [kind |-> "str", v |-> str]]
IntVal(n) == [value |-> [kind |-> "int", v |-> n]]
Delta(fid, old, new) == [field_id |-> fid, old_values |-> old, values |-> new]

\* what a revision holds besides its stamp
Bodies ==
    {[has_data |-> FALSE, fields |-> <<>>],
     \* a name change, then the status change aktiv -> ausgetreten
     [has_data |-> TRUE, fields |->
        <<Delta(DefaultNameFieldId, <<StrVal(<<"A", "d", "a">>)>>, <<StrVal(<<"E", "d", "a">>)>>),
          Delta(DefaultStatusFieldId, <<TextVal(S_aktiv)>>, <<TextVal(S_ausgetreten)>>)>>],
     \* deltas that are no transition on the default status field: the same
     \* change on field 12, a new value without "text", no old value, a new
     \* value that is a raw option id
     [has_data |-> TRUE, fields |->
        <<Delta(12, <<TextVal(S_aktiv)>>, <<TextVal(S_ausgetreten)>>),
          Delta(DefaultStatusFieldId, <<TextVal(S_aktiv)>>, <<[value |-> [kind |-> "dict"]]>>),
          Delta(DefaultStatusFieldId, <<>>, <<TextVal(S_ausgetreten)>>),
          Delta(DefaultStatusFieldId, <<TextVal(S_ausgetreten)>>, <<IntVal(2)>>)>>],
     \* the new value is a raw string
     [has_data |-> TRUE, fields |->
        <<Delta(DefaultStatusFieldId, <<TextVal(S_ausgetreten)>>, <<StrVal(S_ExMitglied)>>)>>]}

Revision(body, k) ==
    IF body.has_data
    THEN [created_on |-> StampAt(k), data |-> [fields |-> body.fields]]
    ELSE [created_on |-> StampAt(k)]

Logs ==
    UNION {{[k \in 1 .. n |-> Revision(bs[k], k)] : bs \in [1 .. n -> Bodies]} :
             n \in 0 .. MaxRevisions}

\* the status field of the app: its identifier and label
DepSchemas ==
    {[field_id |-> DefaultStatusFieldId, label |-> L_Status],
     [field_id |-> 12, label |-> L_Status],
     [field_id |-> 12, label |-> L_Zustand]}

DepStatuses == {None, Some(S_aktiv), Some(S_ausgetreten), Some(S_ExMitglied)}

\* an item whose status field holds st; no status field when st is None
DepItem(schema, st) ==
    IF st = None THEN RawItem(<<>>)
    ELSE RawItem(<<[field_id |-> schema.field_id, type |-> "category",
                    label |-> schema.label,
                    values |-> <<[value |-> [text |-> Val(st)]]>>]>>)

\* get_item_revisions: the cache file exists, its content is returned
DepFetchCached ==
    /\ pc = "dep_loop" /\ dep_i <= Len(exit_status_members)
    /\ member_data[CurrentMember].item_id \in cache_files
    /\ \E log \in Logs : Fetch("cache", log)
    /\ UNCHANGED cache_files

\* get_item_revisions: status 200, the response is cached and returned
DepFetchOk ==
    /\ pc = "dep_loop" /\ dep_i <= Len(exit_status_members)
    /\ member_data[CurrentMember].item_id \notin cache_files
    /\ \E log \in Logs : Fetch("ok", log)
    /\ cache_files' = cache_files \cup {member_data[CurrentMember].item_id}

\* get_item_revisions: status other than 200, returns []
DepFetchNot200 ==
    /\ pc = "dep_loop" /\ dep_i <= Len(exit_status_members)
    /\ member_data[CurrentMember].item_id \notin cache_files
    /\ Fetch("not200", <<>>)
    /\ UNCHANGED cache_files

\* get_item_revisions: the request raises, the except clause returns []
DepFetchException ==
    /\ pc = "dep_loop" /\ dep_i <= Len(exit_status_members)
    /\ member_data[CurrentMember].item_id \notin cache_files
    /\ Fetch("exception", <<>>)
    /\ UNCHANGED cache_files

\* one iteration of "for revision in revisions", lines 298-347
DepScanRevision ==
    /\ pc = "dep_scan"
    /\ rev_pos < Len(revisions)
    /\ ~ScanStops(leave_date)
    /\ LET found == RevisionLeaveDate(revisions[rev_pos + 1],
                                      Val(member_data[CurrentMember].status))
       IN  leave_date' = IF found # None THEN found ELSE leave_date
    /\ rev_pos' = rev_pos + 1
    /\ UNCHANGED <<pc, member_data, extVars, exit_statuses, exit_status_members,
                   dep_i, revisions, cache_files, fetched, printed, aggVars>>

\* the loop over the revisions is over: lines 349-365, then the next member
DepFinishMember ==
    /\ pc = "dep_scan"
    /\ rev_pos = Len(revisions) \/ ScanStops(leave_date)
    /\ member_data' =
         [member_data EXCEPT ![CurrentMember].leave_date =
              NewLeaveDate(leave_date, revisions, @)]
    /\ printed' = Append(printed, LeaveMessage(leave_date, revisions))
    /\ dep_i' = dep_i + 1
    /\ pc' = "dep_loop"
    /\ UNCHANGED <<extVars, exit_statuses, exit_status_members, revisions, rev_pos,
                   leave_date, cache_files, fetched, aggVars>>

\* return member_data
DepReturn ==
    /\ pc = "dep_loop"
    /\ dep_i > Len(exit_status_members)
    /\ pc' = "dep_done"
    /\ UNCHANGED <<member_data, extVars, depVars, aggVars>>

InitDep ==
    /\ pc = "dep_start"
    /\ \E schema \in DepSchemas : \E n \in 0 .. Len(ItemIds) :
         \E sts \in [1 .. n -> DepStatuses] :
            members = [k \in 1 .. n |->
                         [DepItem(schema, sts[k]) EXCEPT !.item_id = ItemIds[k]]]
    /\ member_data = <<>>
    /\ scan_i = 0
    /\ scan_j = 0
    /\ join_date_field_id = None
    /\ status_field_id = None
    /\ name_field_id = None
    /\ exit_statuses = {}
    /\ exit_status_members = <<>>
    /\ dep_i = 0
    /\ revisions = <<>>
    /\ rev_pos = 0
    /\ leave_date = None
    /\ cache_files \in SUBSET {members[k].item_id : k \in Indices(members)}
    /\ fetched = <<>>
    /\ printed = <<>>
    /\ AggIdle

NextDep ==
    \/ DepExtract
    \/ DepSetup
    \/ DepFetchCached
    \/ DepFetchOk
    \/ DepFetchNot200
    \/ DepFetchException
    \/ DepScanRevision
    \/ DepFinishMember
    \/ DepReturn

SpecDep == InitDep /\ [][NextDep]_vars

\* ------------------------------------------------ calculate_monthly_stats
\* member_info as extract_member_data builds it
MemberInfo(id, join, leave, st, nm) ==
    [item_id |-> id, created_on |-> None, join_date |-> join,
     leave_date |-> leave, status |-> st, name |-> nm]

\* valid_members = [m for m in member_data if m["join_date"]]
ValidIdx(md) == {i \in Indices(md) : md[i].join_date # None}

\* Any comparison of an offset-aware with an offset-naive datetime raises
\* TypeError.  datetime.now() is naive, so: an aware leave_date fails at
\* "leave_date > latest_date", aware and naive join dates fail inside min(),
\* and join dates that are all aware fail at "current_date <= end_date".
RaisesTypeError(md) ==
    \/ \E i \in ValidIdx(md) : Val(md[i].join_date).tz
    \/ \E i \in Indices(md) : md[i].leave_date # None /\ Val(md[i].leave_date).tz

\* earliest_date = min(join dates of valid_members)
EarliestDate(md) ==
    LET js == {Val(md[i].join_date) : i \in ValidIdx(md)}
    IN  CHOOSE d \in js : \A e \in js : DateLeq(d, e)

RECURSIVE LatestFrom(_, _, _)
\* latest_date = now; for m in member_data: if leave_date > latest_date: ...
LatestFrom(md, i, latest) ==
    IF i > Len(md) THEN latest
    ELSE IF md[i].leave_date # None /\ DateGt(Val(md[i].leave_date), latest)
         THEN LatestFrom(md, i + 1, Val(md[i].leave_date))
         ELSE LatestFrom(md, i + 1, latest)

LatestDate(md, nw) == LatestFrom(md, 1, nw)

RECURSIVE MonthsFrom(_, _)
\* while current_date <= end_date: months.append(current_date); += 1 month
MonthsFrom(current_date, end_date) ==
    IF DateLeq(current_date, end_date)
    THEN <<current_date>> \o MonthsFrom(AddMonth(current_date), end_date)
    ELSE <<>>

\* The bug "the extra month past the latest event is forgotten".
MonthListNoExtra(md, nw) ==
    MonthsFrom(FirstOfMonth(EarliestDate(md)), FirstOfMonth(LatestDate(md, nw)))

\* current_date, end_date and the while loop that fills `months`
MonthList(md, nw) ==
    MonthsFrom(FirstOfMonth(EarliestDate(md)),
               AddMonth(FirstOfMonth(LatestDate(md, nw))))

RECURSIVE TallyLeftUnguarded(_, _, _, _)
\* The bug "the leave check is not nested in the join check": a member whose
\* leave_date has passed is counted as left whether or not it has joined.
TallyLeftUnguarded(md, i, month_end, acc) ==
    IF i > Len(md) THEN acc
    ELSE IF md[i].join_date = None
         THEN TallyLeftUnguarded(md, i + 1, month_end, acc)
    ELSE LET isJoined == DateLeq(Val(md[i].join_date), month_end)
             hasLeft == /\ md[i].leave_date # None
                        /\ DateLeq(Val(md[i].leave_date), month_end)
             j == IF isJoined THEN [acc EXCEPT !.joined = @ + 1] ELSE acc
             l == IF hasLeft THEN [j EXCEPT !.left = @ + 1] ELSE j
         IN  TallyLeftUnguarded(md, i + 1, month_end,
                 IF isJoined /\ ~hasLeft THEN [l EXCEPT !.active = @ + 1] ELSE l)

RECURSIVE Tally(_, _, _, _)
\* the inner "for member in member_data" loop; acc = [active, joined, left]
Tally(md, i, month_end, acc) ==
    IF i > Len(md) THEN acc
    ELSE IF md[i].join_date = None THEN Tally(md, i + 1, month_end, acc)
    ELSE IF ~DateLeq(Val(md[i].join_date), month_end)
         THEN Tally(md, i + 1, month_end, acc)
    ELSE LET j == [acc EXCEPT !.joined = @ + 1]
         IN  IF md[i].leave_date # None
             THEN IF DateLeq(Val(md[i].leave_date), month_end)
                  THEN Tally(md, i + 1, month_end, [j EXCEPT !.left = @ + 1])
                  ELSE Tally(md, i + 1, month_end, [j EXCEPT !.active = @ + 1])
             ELSE Tally(md, i + 1, month_end, [j EXCEPT !.active = @ + 1])

\* The bug "everyone who joined is active", without the double-check.
MonthBucketNoCheck(md, month_start) ==
    LET t == Tally(md, 1, MonthEnd(month_start),
                   [active |-> 0, joined |-> 0, left |-> 0])
    IN  [month |-> FormatMonth(month_start), active_members |-> t.joined,
         total_joined |-> t.joined, total_left |-> t.left]

\* one iteration of "for month_start in months", double-check included
MonthBucket(md, month_start) ==
    LET t == Tally(md, 1, MonthEnd(month_start),
                   [active |-> 0, joined |-> 0, left |-> 0])
        active_count == IF t.active # t.joined - t.left
                        THEN t.joined - t.left ELSE t.active
    IN  [month |-> FormatMonth(month_start), active_members |-> active_count,
         total_joined |-> t.joined, total_left |-> t.left]

AggMembers ==
    UNION {[1 .. n -> {MemberInfo(0, j, l, None, None) :
                         j \in OptDates, l \in OptDates}] : n \in 0 .. Len(ItemIds)}

InitAgg ==
    /\ pc = "agg_start"
    /\ \E md \in AggMembers :
         member_data = [i \in Indices(md) |-> [md[i] EXCEPT !.item_id = ItemIds[i]]]
    /\ now \in NaiveDates
    /\ months = <<>>
    /\ monthly_counts = <<>>
    /\ ExtIdle
    /\ DepIdle

\* if not valid_members: return []
AggReturnEmpty ==
    /\ pc = "agg_start"
    /\ ValidIdx(member_data) = {}
    /\ pc' = "agg_done"
    /\ UNCHANGED <<member_data, now, months, monthly_counts, extVars, depVars>>

\* a comparison of an aware with a naive datetime: TypeError propagates
AggTypeError ==
    /\ pc = "agg_start"
    /\ ValidIdx(member_data) # {}
    /\ RaisesTypeError(member_data)
    /\ pc' = "agg_error"
    /\ UNCHANGED <<member_data, now, months, monthly_counts, extVars, depVars>>

\* earliest_date .. months list
AggBuildMonths ==
    /\ pc = "agg_start"
    /\ ValidIdx(member_data) # {}
    /\ ~RaisesTypeError(member_data)
    /\ months' = MonthList(member_data, now)
    /\ pc' = "agg_count"
    /\ UNCHANGED <<member_data, now, monthly_counts, extVars, depVars>>

\* one iteration of "for month_start in months"
AggCountMonth ==
    /\ pc = "agg_count"
    /\ Len(monthly_counts) < Len(months)
    /\ monthly_counts' =
         Append(monthly_counts,
                MonthBucket(member_data, months[Len(monthly_counts) + 1]))
    /\ UNCHANGED <<pc, member_data, now, months, extVars, depVars>>

\* return monthly_counts
AggReturn ==
    /\ pc = "agg_count"
    /\ Len(monthly_counts) = Len(months)
    /\ pc' = "agg_done"
    /\ UNCHANGED <<member_data, now, months, monthly_counts, extVars, depVars>>

NextAgg ==
    \/ AggReturnEmpty
    \/ AggTypeError
    \/ AggBuildMonths
    \/ AggCountMonth
    \/ AggReturn

SpecAgg == InitAgg /\ [][NextAgg]_vars

\* ===================================================== claims on SpecAgg
Buckets == Indices(monthly_counts)
Returned == pc = "agg_done"

\* the month index a bucket's "YYYY-MM" names
BucketMonth(b) == b.month[1] * 12 + b.month[2] - 1
\* the last second of the bucket's calendar month
BucketEnd(b) == [m |-> BucketMonth(b), p |-> "end", tz |-> FALSE]

HasJoin == {i \in Indices(member_data) : member_data[i].join_date # None}
JoinedBy(e) == {i \in HasJoin : DateLeq(Val(member_data[i].join_date), e)}
LeftBy(e) ==
    {i \in JoinedBy(e) : /\ member_data[i].leave_date # None
                         /\ DateLeq(Val(member_data[i].leave_date), e)}

\* C1: every bucket of calculate_monthly_stats has
\* active_members = total_joined - total_left, whatever the population
\* (members without join_date or leave_date, leave_date before join_date).
Thm_C1 ==
    \A k \in Buckets :
        monthly_counts[k].active_members =
            monthly_counts[k].total_joined - monthly_counts[k].total_left

\* a returned series with a member that left before it joined, a member
\* without join_date, and a bucket in which somebody has left
Wit_C1 ==
    /\ Returned
    /\ \E i \in HasJoin :
         /\ member_data[i].leave_date # None
         /\ ~DateLeq(Val(member_data[i].join_date), Val(member_data[i].leave_date))
    /\ \E i \in Indices(member_data) : member_data[i].join_date = None
    /\ \E k \in Buckets : monthly_counts[k].total_left > 0

\* C2: in every bucket, total_joined counts exactly the members with
\* join_date <= end of month, total_left exactly those of them with a
\* leave_date <= end of month, active_members exactly the joined that have
\* not left.  Hence a member that joined in month M and never leaves is
\* active in every bucket from M on, and a member that joined in M and left
\* in M+2 is active in M and M+1 only and counted as left from M+2 on.
Thm_C2 ==
    /\ \A k \in Buckets :
         LET b == monthly_counts[k]
             e == BucketEnd(b)
         IN  /\ b.total_joined = Cardinality(JoinedBy(e))
             /\ b.total_left = Cardinality(LeftBy(e))
             /\ b.active_members = Cardinality(JoinedBy(e) \ LeftBy(e))
    /\ (Cardinality(HasJoin) = 1) =>
         \A i \in HasJoin, k \in Buckets :
            LET b == monthly_counts[k]
                M == Val(member_data[i].join_date).m
            IN  /\ (member_data[i].leave_date = None /\ BucketMonth(b) >= M)
                     => (b.active_members = 1 /\ b.total_joined = 1)
                /\ (/\ member_data[i].leave_date # None
                    /\ Val(member_data[i].leave_date).m = M + 2)
                     => /\ (BucketMonth(b) \in {M, M + 1})
                             => (b.active_members = 1 /\ b.total_left = 0)
                        /\ (BucketMonth(b) >= M + 2)
                             => (b.active_members = 0 /\ b.total_left = 1)

\* a returned series for "A joins in M and stays, B joins in M+... and
\* leaves two months after joining", with a bucket where one is active and
\* one has left
Wit_C2 ==
    /\ Returned
    /\ \E i, j \in HasJoin :
         /\ member_data[i].leave_date = None
         /\ member_data[j].leave_date # None
         /\ Val(member_data[j].leave_date).m = Val(member_data[j].join_date).m + 2
    /\ \E k \in Buckets :
         /\ monthly_counts[k].active_members = 1
         /\ monthly_counts[k].total_left = 1
    /\ \E k \in Buckets : monthly_counts[k].active_members = 2

\* <<year, month>> one calendar month after ym
NextYM(ym) == IF ym[2] = 12 THEN <<ym[1] + 1, 1>> ELSE <<ym[1], ym[2] + 1>>
\* the <<year, month>> of month index m
YM(m) == CHOOSE ym \in ((m \div 12) - 1 .. (m \div 12) + 1) \X (1 .. 12) :
            ym[1] * 12 + ym[2] - 1 = m

EarliestJoinMonth ==
    CHOOSE m \in {Val(member_data[i].join_date).m : i \in HasJoin} :
        \A i \in HasJoin : m <= Val(member_data[i].join_date).m
LatestEventMonth ==
    LET ms == {now.m} \cup {Val(member_data[i].leave_date).m :
                   i \in {j \in Indices(member_data) : member_data[j].leave_date # None}}
    IN  CHOOSE m \in ms : \A n \in ms : n <= m

Consecutive ==
    \A k \in Buckets : k > 1 => monthly_counts[k].month = NextYM(monthly_counts[k - 1].month)

\* C3, as claimed: whenever a member has a join_date the returned series is
\* gapless, starts at the month of the earliest join_date and ends at the
\* month after the later of now and the latest leave_date.
Orig_C3 ==
    (Returned /\ HasJoin # {}) =>
        /\ Consecutive
        /\ monthly_counts # <<>>
        /\ monthly_counts[1].month = YM(EarliestJoinMonth)
        /\ monthly_counts[Len(monthly_counts)].month = YM(LatestEventMonth + 1)

\* C3, amended: the same, provided the month of the earliest join_date is
\* not later than that end month; otherwise the returned series is empty.
Thm_C3 ==
    (Returned /\ HasJoin # {}) =>
        /\ Consecutive
        /\ IF EarliestJoinMonth <= LatestEventMonth + 1
           THEN /\ monthly_counts # <<>>
                /\ monthly_counts[1].month = YM(EarliestJoinMonth)
                /\ monthly_counts[Len(monthly_counts)].month = YM(LatestEventMonth + 1)
           ELSE monthly_counts = <<>>

\* a returned series of at least three buckets that crosses a year boundary
\* and whose end is set by a leave_date later than now
Wit_C3 ==
    /\ Returned
    /\ Len(monthly_counts) >= 3
    /\ LatestEventMonth > now.m
    /\ \E k \in Buckets : monthly_counts[k].month[2] = 12
    /\ \E k \in Buckets : monthly_counts[k].month[2] = 1

\* the members with a join_date whose leave_date has passed at e while their
\* join_date has not
LeftNotJoined(e) ==
    {i \in HasJoin : /\ member_data[i].leave_date # None
                     /\ DateLeq(Val(member_data[i].leave_date), e)
                     /\ ~DateLeq(Val(member_data[i].join_date), e)}

\* C11: for every member population, members whose leave_date is earlier
\* than their join_date included, every bucket of calculate_monthly_stats has
\* 0 <= total_left <= total_joined and active_members >= 0, because the
\* members counted as left in a bucket are members counted as joined in it:
\* total_left is the number of joined members whose leave_date has passed.
Thm_C11 ==
    \A k \in Buckets :
        LET b == monthly_counts[k]
            e == BucketEnd(b)
        IN  /\ 0 <= b.total_left
            /\ b.total_left <= b.total_joined
            /\ b.active_members >= 0
            /\ LeftBy(e) \subseteq JoinedBy(e)
            /\ b.total_left = Cardinality(LeftBy(e))

\* a returned series with a bucket at whose end a member's leave_date has
\* passed and its join_date has not (so it is counted nowhere), while another
\* member of the same bucket is counted as joined and as left
Wit_C11 ==
    /\ Returned
    /\ \E k \in Buckets :
         LET b == monthly_counts[k]
         IN  /\ LeftNotJoined(BucketEnd(b)) # {}
             /\ b.total_joined = 1
             /\ b.total_left = 1
             /\ b.active_members = 0

\* ===================================================== claims on SpecExt
\* the role a label resolves, by the rules of the Field Resolver
RoleOf(field) ==
    LET label == Lower(Get(field, "label", <<>>))
        isJoin == Contains(<<"b", "e", "g", "i", "n", "n">>, label) /\ Contains(<<"m", "i", "t", "g", "l", "i", "e", "d", "s", "c", "h", "a", "f", "t">>, label)
        isStatus == Contains(<<"s", "t", "a", "t", "u", "s">>, label)
        isName == Contains(<<"n", "a", "m", "e">>, label)
    IN  CASE isJoin -> "join"
          [] ~isJoin /\ isStatus -> "status"
          [] ~isJoin /\ ~isStatus /\ isName -> "name"
          [] OTHER -> "none"

\* RoleOf, tabulated over the fields of the input records
ExtFields ==
    UNION {{Get(it, "fields", <<>>)[j] : j \in Indices(Get(it, "fields", <<>>))} :
             it \in ExtItems}
RoleTable == [f \in ExtFields |-> RoleOf(f)]

\* positions <<record, field>> of the sample whose label resolves role
Matches(role) ==
    {pos \in (1 .. SampleLen) \X (1 .. 4) :
        /\ pos[2] <= Len(FieldsOf(pos[1]))
        /\ RoleTable[FieldsOf(pos[1])[pos[2]]] = role}
Before(a, b) == a[1] < b[1] \/ (a[1] = b[1] /\ a[2] <= b[2])
First(ms) == CHOOSE a \in ms : \A b \in ms : Before(a, b)
Last(ms) == CHOOSE a \in ms : \A b \in ms : Before(b, a)
IdAt(pos) == Some(FieldsOf(pos[1])[pos[2]].field_id)
\* the identifier of the last matching field, or the default
LastOr(role, default) ==
    LET ms == Matches(role) IN IF ms = {} THEN Some(default) ELSE IdAt(Last(ms))
ScanOver == pc \in {"ext_members", "ext_done", "ext_error"}

\* C7, as claimed: during the label scan a role that is resolved is never
\* overwritten by a later matching label.
Orig_C7 ==
    [][(pc = "ext_scan" /\ pc' = "ext_scan") =>
          /\ (join_date_field_id # None => join_date_field_id' = join_date_field_id)
          /\ (status_field_id # None => status_field_id' = status_field_id)
          /\ (name_field_id # None => name_field_id' = name_field_id)]_vars

\* C7, amended: every matching label of the sample overwrites the role's
\* identifier, so the identifier used for a role is that of the LAST matching
\* field in scan order over the first 5 records (the default constant when
\* no label of the sample matches).
Thm_C7 ==
    ScanOver =>
        /\ join_date_field_id = LastOr("join", DefaultJoinDateFieldId)
        /\ status_field_id = LastOr("status", DefaultStatusFieldId)
        /\ name_field_id = LastOr("name", DefaultNameFieldId)

\* the scan is over and, for each role, the first and the last matching
\* field of the sample carry different identifiers; a record past the sample
\* has a matching label with yet another identifier
Wit_C7 ==
    /\ ScanOver
    /\ Len(members) > SampleSize
    /\ \A role \in {"join", "status", "name"} :
         LET ms == Matches(role)
         IN  ms # {} /\ IdAt(First(ms)) # IdAt(Last(ms))
    /\ LET fs == Get(members[Len(members)], "fields", <<>>)
       IN  /\ fs # <<>>
           /\ RoleTable[fs[1]] = "name"
           /\ Some(fs[1].field_id) # name_field_id

\* the join-date field of a record (the field with the resolved identifier)
\* is partial: not of date type, without values, or without "start"
PartialJoin(member) ==
    \A j \in Indices(Get(member, "fields", <<>>)) :
        LET field == member.fields[j]
        IN  Some(field.field_id) = join_date_field_id =>
               \/ field.type # "date"
               \/ Get(field, "values", <<>>) = <<>>
               \/ "start" \notin DOMAIN field.values[1]
HasField(member, id) ==
    \E j \in Indices(Get(member, "fields", <<>>)) : Some(member.fields[j].field_id) = id

\* C8: normalisation never fails on partial records: every record yields a
\* member_info; a join-date field that is not a date, has no values (missing
\* or empty list) or no "start" leaves join_date absent; missing status or
\* name fields leave status or name absent.
Orig_C8 ==
    /\ pc # "ext_error"
    /\ pc = "ext_done" =>
         /\ Len(member_data) = Len(members)
         /\ \A k \in Indices(members) :
              /\ PartialJoin(members[k]) => member_data[k].join_date = None
              /\ ~HasField(members[k], status_field_id) => member_data[k].status = None
              /\ ~HasField(members[k], name_field_id) => member_data[k].name = None

\* ===================================================== claims on SpecDep
\* members whose log has been scanned and whose leave_date is settled
Processed == Indices(printed)
\* the member processed n-th
MemberAt(n) == member_data[exit_status_members[n]]
\* the member loop has just completed an iteration: `revisions`, `rev_pos`
\* still hold what that iteration left
JustFinished == pc \in {"dep_loop", "dep_done"} /\ printed # <<>>
LastMember == MemberAt(Len(printed))

\* revision holds a delta of field fid with an old and a new value whose new
\* value displays as st
IsTransitionOn(fid, revision, st) ==
    /\ "data" \in DOMAIN revision
    /\ \E j \in Indices(revision.data.fields) :
         LET d == revision.data.fields[j]
         IN  /\ d.field_id = fid
             /\ d.old_values # <<>>
             /\ d.values # <<>>
             /\ DecodeStatus(d.values[1]) = Some(st)
\* the entries of the fetched log that are transitions into st, on the
\* status field find_status_change_dates looks at
Transitions(st) ==
    {k \in Indices(revisions) : IsTransitionOn(FindStatusFieldId, revisions[k], st)}
Min(ks) == CHOOSE k \in ks : \A l \in ks : k <= l

\* C4: for a departed member the log is scanned in delivery order, leave_date
\* is the stamp of the first entry with a status delta (old and new value
\* present) whose new value is the member's status, and the scan stops there:
\* no later entry is consulted.
Thm_C4 ==
    /\ pc = "dep_scan" =>
         LET ts == Transitions(Val(member_data[CurrentMember].status))
         IN  /\ ts # {} => rev_pos <= Min(ts)
             /\ leave_date # None =>
                  /\ ts # {}
                  /\ rev_pos = Min(ts)
                  /\ leave_date = Some(revisions[Min(ts)].created_on)
             /\ (leave_date = None /\ ts # {}) => rev_pos < Min(ts)
    /\ JustFinished =>
         LET ts == Transitions(Val(LastMember.status))
         IN  \/ ts = {}
             \/ /\ LastMember.leave_date = Some(revisions[Min(ts)].created_on)
                /\ rev_pos = Min(ts)
                /\ printed[Len(printed)] = "found"

\* a processed member whose log has two transitions into its status, the
\* first of them not the first entry
Wit_C4 ==
    /\ JustFinished
    /\ LET ts == Transitions(Val(LastMember.status))
       IN  Cardinality(ts) >= 2 /\ Min(ts) >= 2

\* C5, as claimed: without a matching transition in a non-empty log,
\* leave_date is the stamp of the first delivered entry, and the result is
\* flagged approximate: the member record tells it from one found exactly.
Orig_C5 ==
    /\ (JustFinished /\ Transitions(Val(LastMember.status)) = {} /\ revisions # <<>>)
            => LastMember.leave_date = Some(revisions[1].created_on)
    /\ \A a \in Processed, b \in Processed :
         (printed[a] = "approximate" /\ printed[b] = "found")
            => [MemberAt(a) EXCEPT !.item_id = 0] # [MemberAt(b) EXCEPT !.item_id = 0]

\* C5, amended: without a matching transition in a non-empty log, leave_date
\* is the stamp of the first delivered entry; the member record carries no
\* flag (it has the same six keys as any other), only the printed message
\* says "approximate".
Thm_C5 ==
    (JustFinished /\ Transitions(Val(LastMember.status)) = {} /\ revisions # <<>>)
           => /\ LastMember.leave_date = Some(revisions[1].created_on)
              /\ printed[Len(printed)] = "approximate"
              /\ DOMAIN LastMember =
                   {"item_id", "created_on", "join_date", "leave_date", "status", "name"}

\* a processed member with a log of several entries, one of them a status
\* delta, none a transition into the member's status
Wit_C5 ==
    /\ JustFinished
    /\ Transitions(Val(LastMember.status)) = {}
    /\ Len(revisions) >= 2
    /\ \E k \in Indices(revisions) :
         IsTransitionOn(FindStatusFieldId, revisions[k], S_ausgetreten)
    /\ LastMember.leave_date # None

\* a status carries an exit marker
HasMarker(st) == \E term \in ExitTerms : Contains(term, Lower(st))
\* the run's departed-status set: the statuses with a marker, or the single
\* literal when no member's status has one
Departed(st) ==
    IF \E k \in Indices(member_data) :
           member_data[k].status # None /\ HasMarker(Val(member_data[k].status))
    THEN HasMarker(st)
    ELSE st = <<"a", "u", "s", "g", "e", "t", "r", "e", "t", "e", "n">>
SetupDone == pc \in {"dep_loop", "dep_scan", "dep_done"}

\* C6: a member whose status is not in the departed-status set never has its
\* change log fetched and keeps leave_date absent.
Thm_C6 ==
    SetupDone =>
        \A k \in Indices(member_data) :
            (member_data[k].status = None \/ ~Departed(Val(member_data[k].status)))
               => /\ \A n \in Indices(fetched) : fetched[n].item_id # member_data[k].item_id
                  /\ member_data[k].leave_date = None

\* the run is over, a member with status "aktiv" was passed over and another
\* member got a leave_date
Wit_C6 ==
    /\ pc = "dep_done"
    /\ \E k \in Indices(member_data) : member_data[k].status = Some(S_aktiv)
    /\ \E k \in Indices(member_data) : member_data[k].leave_date # None

\* C9: a departed member whose obtained change log is empty (no entries, or
\* [] returned because the fetch failed) keeps leave_date absent, and the
\* loop goes on to the next member without an error.
Thm_C9 ==
    /\ \A n \in Processed :
         fetched[n].empty => (MemberAt(n).leave_date = None /\ printed[n] = "none")
    /\ SetupDone => (Len(printed) = dep_i - 1 /\ dep_i <= Len(exit_status_members) + 1)
    /\ pc = "dep_done" => Len(printed) = Len(exit_status_members)
    /\ pc # "dep_error"

\* the run is over: the first departed member's fetch failed, the second
\* departed member was processed after it and got a leave_date
Wit_C9 ==
    /\ pc = "dep_done"
    /\ Len(printed) = 2
    /\ fetched[1].empty /\ fetched[1].how \in {"not200", "exception"}
    /\ MemberAt(1).leave_date = None
    /\ MemberAt(2).leave_date # None

\* C10: find_status_change_dates matches deltas against the identifier that
\* extract_member_data resolved for the status field, also when that was
\* inferred from a label and is not the default; so an entry with a delta on
\* the resolved field into the member's status is found as the transition.
Orig_C10 ==
    JustFinished =>
        LET ts == {k \in Indices(revisions) :
                     IsTransitionOn(Val(status_field_id), revisions[k],
                                    Val(LastMember.status))}
        IN  \/ ts = {}
            \/ /\ Some(FindStatusFieldId) = status_field_id
               /\ printed[Len(printed)] = "found"
               /\ LastMember.leave_date = Some(revisions[Min(ts)].created_on)

====
